---- MODULE Spec2Model ----
(***************************************************************************)
(* Model of JavSP's file organisation core:                                *)
(*   src/javsp/lib.py       is_folder_safe_to_delete (FolderSafetyAnalyzer)*)
(*                          detect_special_attr (AttributeDetector)        *)
(*                          truncate_filename (FilenameTruncator)          *)
(*   src/javsp/datatype.py  Movie.rename_files / _cleanup_source_folder    *)
(*                          (FileRelocator and its cleanup cascade)        *)
(*                                                                         *)
(* A file name is the pair os.path.splitext gives: root and extension.     *)
(* The root is a sequence of text pieces so that basename + "-CD" + number *)
(* is built the way the f-string builds it.  A path is a directory plus a  *)
(* name; paths are already absolute and normalised (os.path.abspath).      *)
(***************************************************************************)
EXTENDS Integers, Sequences, FiniteSets, TLC

VARIABLES
    fs,                     \* the file system: path -> entry (file, subdirectory, nothing)
    dirs,                   \* the directories that exist
    movie,                  \* per invocation: the Movie object (files, save_dir, basename, new_paths)
    cleanup_empty_folders,  \* Cfg().summarizer.path.cleanup_empty_folders
    relocate,               \* per invocation: position, locals and log of rename_files
    call,                   \* arguments of a direct call of is_folder_safe_to_delete
    ret,                    \* what that call returned
    detect,                 \* a call of detect_special_attr: arguments and outcome
    trunc,                  \* calls of truncate_filename: arguments and outcomes
    fetch                   \* a call of EnhancedSession.get_with_retry: locals, requests, outcome

vars == <<fs, dirs, movie, cleanup_empty_folders, relocate, call, ret, detect, trunc, fetch>>
relocVars == <<fs, dirs, movie, cleanup_empty_folders, relocate>>
analyzeVars == <<call, ret>>
pureVars == <<detect, trunc, fetch>>

\* no call of detect_special_attr, of truncate_filename, of get_with_retry
NoDetect == [filepath |-> <<>>, avid |-> [none |-> TRUE, s |-> <<>>],
             returned |-> FALSE, raised |-> "none", result |-> <<>>]
NoTrunc == [filename |-> <<>>, max_length |-> 0, by_byte |-> FALSE, preserve_ext |-> FALSE,
            calls |-> 0, result |-> <<>>, again |-> <<>>]
NoFetch == [pc |-> "idle", max_attempts |-> 0, attempt |-> 0, last_exception |-> "None",
            connection_tested |-> FALSE, sent |-> <<>>, tests |-> 0,
            outcome |-> "none", value |-> "None", status_code |-> 0]
PureIdle == detect = NoDetect /\ trunc = NoTrunc /\ fetch = NoFetch

(***************************************************************************)
(* Bounds of the model.                                                    *)
(***************************************************************************)
MaxFiles == 2       \* files of one title
MaxExtras == 1      \* other entries on disk besides the title's files
MaxCalls == 2       \* calls of rename_files on one Movie
MaxListing == 3     \* entries of a directory handed to is_folder_safe_to_delete

(***************************************************************************)
(* Names.                                                                  *)
(***************************************************************************)
Name(root, ext) == [root |-> root, ext |-> ext]

\* str.lower() on the pieces of text the model uses
lower(s) ==
    CASE s = ".MKV" -> ".mkv"
      [] s = "MOVIE" -> "movie"
      [] s = ".DS_Store" -> ".ds_store"
      [] s = "X" -> "x"
      [] s = "-CD" -> "-cd"
      [] OTHER -> s

\* item.lower() followed by os.path.splitext
item_lower(name) ==
    [root |-> [k \in DOMAIN name.root |-> lower(name.root[k])], ext |-> lower(name.ext)]

\* the default of keep_video_extensions
default_video_extensions ==
    {".3gp", ".avi", ".f4v", ".flv", ".iso", ".m2ts", ".m4v", ".mkv",
     ".mov", ".mp4", ".mpeg", ".rm", ".rmvb", ".ts", ".vob", ".webm",
     ".wmv", ".strm", ".mpg"}

deletable_extensions ==
    {".jpg", ".jpeg", ".png", ".gif", ".bmp", ".tiff", ".tif", ".webp",
     ".nfo", ".xml", ".txt", ".json", ".db", ".ini", ".log",
     ".srt", ".ass", ".ssa", ".vtt", ".sub", ".idx", ".sup",
     ".url", ".lnk", ".torrent", ".magnet", ".md5", ".sha1",
     ".tmp", ".temp", ".bak", ".old", ".~", ".swp",
     ".ds_store", "thumbs.db", "desktop.ini"}

deletable_filenames ==
    {Name(<<"thumbs">>, ".db"), Name(<<"desktop">>, ".ini"), Name(<<".ds_store">>, ""),
     Name(<<"folder">>, ".jpg"), Name(<<"folder">>, ".png"),
     Name(<<"cover">>, ".jpg"), Name(<<"cover">>, ".png"),
     Name(<<"poster">>, ".jpg"), Name(<<"poster">>, ".png"),
     Name(<<"fanart">>, ".jpg"), Name(<<"fanart">>, ".png"),
     Name(<<"background">>, ".jpg"), Name(<<"background">>, ".png"),
     Name(<<"banner">>, ".jpg"), Name(<<"banner">>, ".png"),
     Name(<<"logo">>, ".jpg"), Name(<<"logo">>, ".png"),
     Name(<<"movie">>, ".nfo"), Name(<<"tvshow">>, ".nfo"),
     Name(<<"season">>, ".nfo"), Name(<<"episode">>, ".nfo")}

\* file_size < 1024 * 10
small_file_limit == 1024 * 10

(***************************************************************************)
(* is_folder_safe_to_delete.  A folder is what the os calls answer for it: *)
(*   exists, isdir   os.path.exists / os.path.isdir of folder_path         *)
(*   oserror         os.listdir raises OSError                             *)
(*   listing         the entries in os.listdir order, each with its name,  *)
(*                   os.path.isdir, os.path.getsize (or that it raises)    *)
(* A reason is kept as its kind and the item it names.                     *)
(***************************************************************************)
Reason(kind, name) == [kind |-> kind, item |-> name]

NoName == Name(<<>>, "")

\* the size test of one entry, out of priority order (the mutant of the loop body)
classify_size_first(item, keep_video_extensions) ==
    IF item.isdir THEN <<Reason("subdir", item.name)>>
    ELSE IF ~item.getsize_raises /\ item.size < small_file_limit THEN <<>>
    ELSE IF item_lower(item.name).ext \in {lower(e) : e \in keep_video_extensions}
         THEN <<Reason("video", item.name)>>
    ELSE IF item_lower(item.name).ext \in deletable_extensions THEN <<>>
    ELSE IF item_lower(item.name) \in deletable_filenames THEN <<>>
    ELSE <<Reason("unknown", item.name)>>

\* the body of the for loop: what one entry appends to important_files
classify(item, keep_video_extensions) ==
    IF item.isdir THEN <<Reason("subdir", item.name)>>
    ELSE IF item_lower(item.name).ext \in {lower(e) : e \in keep_video_extensions}
         THEN <<Reason("video", item.name)>>
    ELSE IF item_lower(item.name).ext \in deletable_extensions THEN <<>>
    ELSE IF item_lower(item.name) \in deletable_filenames THEN <<>>
    ELSE IF ~item.getsize_raises /\ item.size < small_file_limit THEN <<>>
    ELSE <<Reason("unknown", item.name)>>

RECURSIVE important_files_reversed(_, _)
\* the reasons collected from the last entry to the first (the mutant of the loop)
important_files_reversed(listing, keep_video_extensions) ==
    IF listing = <<>> THEN <<>>
    ELSE important_files_reversed(Tail(listing), keep_video_extensions)
            \o classify(Head(listing), keep_video_extensions)

RECURSIVE important_files_of(_, _)
important_files_of(listing, keep_video_extensions) ==
    IF listing = <<>> THEN <<>>
    ELSE classify(Head(listing), keep_video_extensions)
            \o important_files_of(Tail(listing), keep_video_extensions)

\* a missing path treated as a directory that cannot be listed (the mutant of the
\* first test)
is_folder_unlistable_when_missing(folder, keep_video_extensions) ==
    IF ~folder.exists \/ ~folder.isdir \/ folder.oserror
    THEN [safe |-> FALSE, reasons |-> <<Reason("access", NoName)>>]
    ELSE [safe |-> Len(important_files_of(folder.listing, default_video_extensions)) = 0,
          reasons |-> important_files_of(folder.listing, default_video_extensions)]

\* keep_video_extensions is [none |-> TRUE] for the default, else [none |-> FALSE, exts |-> ...]
is_folder_safe_to_delete(folder, keep_video_extensions) ==
    IF ~folder.exists \/ ~folder.isdir THEN [safe |-> TRUE, reasons |-> <<>>]
    ELSE IF folder.oserror THEN [safe |-> FALSE, reasons |-> <<Reason("access", NoName)>>]
    ELSE LET exts == IF keep_video_extensions.none THEN default_video_extensions
                     ELSE keep_video_extensions.exts
             important_files == important_files_of(folder.listing, exts)
         IN [safe |-> Len(important_files) = 0, reasons |-> important_files]

(***************************************************************************)
(* The file system.                                                        *)
(***************************************************************************)
Procs == {1, 2}
Dirs == {"in", "out"}

\* f'{i}'
str(i) == CASE i = 1 -> "1" [] i = 2 -> "2" [] i = 3 -> "3" [] i = 4 -> "4" [] OTHER -> "n"


\* Cfg().scanner.filename_extensions
filename_extensions == {".mp4", ".mkv"}

SrcNames ==
    {Name(<<"a">>, ".mp4"), Name(<<"b">>, ".MKV"),
     Name(<<"X">>, ".mp4"), Name(<<"X", "-CD", "1">>, ".mp4")}

PosterJpg == Name(<<"poster">>, ".jpg")
NoteDat == Name(<<"n">>, ".dat")
SubDir == Name(<<"sub">>, "")

\* every name a directory may hold, in the order os.listdir returns them:
\* the sources, what else lies about, and the names rename_files can give
NameOrder ==
    <<Name(<<"a">>, ".mp4"), Name(<<"b">>, ".MKV"), PosterJpg, NoteDat, SubDir,
      Name(<<"X">>, ".mp4"), Name(<<"X">>, ".MKV")>>
    \o [k \in 1..MaxFiles |-> Name(<<"X", "-CD", str(k)>>, ".mp4")]
    \o [k \in 1..MaxFiles |-> Name(<<"X", "-CD", str(k)>>, ".MKV")]

NameUniverse == {NameOrder[k] : k \in DOMAIN NameOrder}

Path(d, name) == [dir |-> d, name |-> name]
Paths == [dir : Dirs, name : NameUniverse]

NoEnt == [kind |-> "none", ino |-> 0, size |-> 0]
File(ino, size) == [kind |-> "file", ino |-> ino, size |-> size]
SubDirEnt == [kind |-> "dir", ino |-> 0, size |-> 0]

\* os.path.exists
exists(f, path) == f[path].kind # "none"
\* os.path.isfile
isfile(f, path) == f[path].kind = "file"
\* os.path.isdir of an entry
isdir(f, path) == f[path].kind = "dir"

RECURSIVE SelectNames(_, _, _)
SelectNames(f, d, names) ==
    IF names = <<>> THEN <<>>
    ELSE (IF exists(f, Path(d, Head(names))) THEN <<Head(names)>> ELSE <<>>)
            \o SelectNames(f, d, Tail(names))

\* os.listdir(d)
listdir(f, d) == SelectNames(f, d, NameOrder)

\* what the os calls of is_folder_safe_to_delete answer for directory d
FolderView(f, ds, d, oserror) ==
    LET names == listdir(f, d)
    IN [exists |-> d \in ds, isdir |-> d \in ds, oserror |-> oserror,
        listing |-> [k \in 1..Len(names) |->
                       [name |-> names[k],
                        isdir |-> isdir(f, Path(d, names[k])),
                        size |-> f[Path(d, names[k])].size,
                        getsize_raises |-> FALSE]]]

(***************************************************************************)
(* Movie.rename_files.                                                     *)
(***************************************************************************)
\* os.path.splitext(fullpath)[1]
ext_of(fullpath) == fullpath.name.ext

\* every part named with the extension of the first file (a slip in the loop body)
newpath_first_ext(m, i) ==
    IF Len(m.files) = 1
    THEN Path(m.save_dir, Name(<<m.basename>>, ext_of(m.files[1])))
    ELSE Path(m.save_dir, Name(<<m.basename, "-CD", str(i)>>, ext_of(m.files[1])))

\* newpath of the file at position i (1-based)
newpath(m, i) ==
    IF Len(m.files) = 1
    THEN Path(m.save_dir, Name(<<m.basename>>, ext_of(m.files[i])))
    ELSE Path(m.save_dir, Name(<<m.basename, "-CD", str(i)>>, ext_of(m.files[i])))

\* dir = os.path.dirname(self.files[0])
source_dir(m) == m.files[1].dir

\* the disk as _cleanup_source_folder found it (kept for the record only)
NoSnapshot == [taken |-> FALSE, fs |-> <<>>, dirs |-> {}]
Snapshot(f, ds) == [taken |-> TRUE, fs |-> f, dirs |-> ds]

NoLast ==
    [i |-> 0, outcome |-> "none", src |-> Path("in", NoteDat), dst |-> Path("in", NoteDat),
     src_before |-> NoEnt, dst_before |-> NoEnt]

Step(i, outcome, src, dst) ==
    [i |-> i, outcome |-> outcome, src |-> src, dst |-> dst,
     src_before |-> fs[src], dst_before |-> fs[dst]]

\* the locals of a call of rename_files at its start
Fresh(r) ==
    [r EXCEPT !.pc = "loop", !.i = 1, !.new_paths = <<>>, !.raised = "none",
              !.analyzed = FALSE, !.can_delete = FALSE, !.important_files = <<>>,
              !.items = <<>>, !.calls = r.calls + 1, !.last = NoLast,
              !.dup_deleted = {}, !.created = {}, !.removed = {}, !.failed = {},
              !.rmdir = "none", !.at_cleanup = NoSnapshot]

\* the caller calls movie.rename_files(use_hardlink): new_paths = [], the loop starts
rename_files(p) ==
    /\ relocate[p].pc \in {"idle", "done"}
    /\ relocate[p].calls < MaxCalls
    /\ relocate' = [relocate EXCEPT ![p] = Fresh(@)]
    /\ UNCHANGED <<fs, dirs, movie, cleanup_empty_folders, analyzeVars, pureVars>>

\* move_file returned False: the source was a duplicate and is deleted
returned_false(p, r, step) ==
    [r EXCEPT !.i = r.i + 1,
              !.pc = IF r.i + 1 > Len(movie[p].files) THEN "assign" ELSE "loop",
              !.dup_deleted = @ \cup {r.i}, !.last = step]

\* move_file returned True: new_paths.append(newpath)
returned_true(p, r, step) ==
    [r EXCEPT !.i = r.i + 1,
              !.pc = IF r.i + 1 > Len(movie[p].files) THEN "assign" ELSE "loop",
              !.new_paths = Append(@, step.dst), !.created = @ \cup {step.dst},
              !.last = step]

\* an exception leaves rename_files: nothing after the failing call runs
raise(r, exception, step) ==
    [r EXCEPT !.pc = "done", !.raised = exception, !.last = step]

\* a slip that logs the failed os.remove and goes on as if the duplicate were resolved
remove_error_swallowed(p, r, step) ==
    [r EXCEPT !.i = r.i + 1,
              !.pc = IF r.i + 1 > Len(movie[p].files) THEN "assign" ELSE "loop",
              !.last = step]

\* except OSError around os.remove(abs_src): raise FileExistsError
remove_error(p, r, step) == raise(r, "FileExistsError", step)

\* a transfer that copies and leaves the source in either mode (the mutant of
\* the transfer)
transfer_copy(f, src, dst, use_hardlink) == [f EXCEPT ![dst] = f[src]]

\* os.link(src, abs_dst) or shutil.move(src, abs_dst)
transfer(f, src, dst, use_hardlink) ==
    IF use_hardlink THEN [f EXCEPT ![dst] = f[src]]
    ELSE [f EXCEPT ![dst] = f[src], ![src] = NoEnt]

(* One pass of the loop body: move_file(fullpath, newpath) and the append.   *)
(* oserror is the os call that fails for a reason outside the model          *)
(* (permissions, a full or read-only disk, a link across devices).           *)
move_file(p) ==
    LET r == relocate[p]
        src == movie[p].files[r.i]
        dst == newpath(movie[p], r.i)
    IN /\ r.pc = "loop"
       /\ \E oserror \in {"none", "makedirs", "transfer"} :
            IF exists(fs, dst)
            THEN IF isfile(fs, src) /\ oserror = "none"
                 THEN /\ fs' = [fs EXCEPT ![src] = NoEnt]
                      /\ relocate' = [relocate EXCEPT ![p] =
                            returned_false(p, r, Step(r.i, "dup_deleted", src, dst))]
                      /\ UNCHANGED dirs
                 ELSE /\ relocate' = [relocate EXCEPT ![p] =
                            remove_error(p, r, Step(r.i, "dup_undeletable", src, dst))]
                      /\ UNCHANGED <<fs, dirs>>
            ELSE IF oserror = "makedirs" /\ dst.dir \notin dirs
                 THEN /\ relocate' = [relocate EXCEPT ![p] =
                            raise(r, "OSError", Step(r.i, "failed", src, dst))]
                      /\ UNCHANGED <<fs, dirs>>
                 ELSE IF oserror = "transfer" \/ ~isfile(fs, src)
                 THEN /\ dirs' = dirs \cup {dst.dir}
                      /\ relocate' = [relocate EXCEPT ![p] =
                            raise(r, "OSError", Step(r.i, "failed", src, dst))]
                      /\ UNCHANGED fs
                 ELSE /\ dirs' = dirs \cup {dst.dir}
                      /\ fs' = transfer(fs, src, dst, r.use_hardlink)
                      /\ relocate' = [relocate EXCEPT ![p] =
                            returned_true(p, r, Step(r.i, "created", src, dst))]
       /\ UNCHANGED <<movie, cleanup_empty_folders, analyzeVars, pureVars>>

\* self.new_paths = new_paths, then the test of cleanup_empty_folders
assign_new_paths(p) ==
    /\ relocate[p].pc = "assign"
    /\ movie' = [movie EXCEPT ![p].has_new_paths = TRUE,
                              ![p].new_paths = relocate[p].new_paths]
    /\ relocate' = [relocate EXCEPT ![p].pc =
                        IF cleanup_empty_folders THEN "cleanup" ELSE "done"]
    /\ UNCHANGED <<fs, dirs, cleanup_empty_folders, analyzeVars, pureVars>>

(***************************************************************************)
(* Movie._cleanup_source_folder, one action per file system step.          *)
(***************************************************************************)
\* a slip that goes on to delete whatever the verdict was
proceeds_always(verdict) == TRUE

\* if can_delete:
proceeds(verdict) == verdict.safe

\* the existence test, is_folder_safe_to_delete, and the branch on its verdict
cleanup_analyze(p) ==
    LET r == relocate[p]
        folder == source_dir(movie[p])
    IN /\ r.pc = "cleanup"
       /\ IF folder \notin dirs
          THEN /\ relocate' = [relocate EXCEPT ![p] =
                        [@ EXCEPT !.pc = "done", !.at_cleanup = Snapshot(fs, dirs)]]
               /\ UNCHANGED dirs
          ELSE \E oserror \in BOOLEAN :
                 LET verdict == is_folder_safe_to_delete(
                                    FolderView(fs, dirs, folder, oserror),
                                    [none |-> FALSE, exts |-> filename_extensions])
                     empty == Len(verdict.reasons) = 0 /\ Len(listdir(fs, folder)) = 0
                 IN /\ relocate' = [relocate EXCEPT ![p] =
                            [@ EXCEPT !.at_cleanup = Snapshot(fs, dirs),
                                      !.analyzed = TRUE, !.can_delete = verdict.safe,
                                      !.important_files = verdict.reasons,
                                      !.pc = IF proceeds(verdict) THEN "listdir" ELSE "done",
                                      !.rmdir = IF ~proceeds(verdict) /\ empty
                                                THEN "ok" ELSE @]]
                    \* else-branch without important files: os.rmdir(folder_path)
                    /\ dirs' = IF ~proceeds(verdict) /\ empty
                               THEN dirs \ {folder} ELSE dirs
       /\ UNCHANGED <<fs, movie, cleanup_empty_folders, analyzeVars, pureVars>>

\* for item in os.listdir(folder_path); an OSError here ends the cleanup
cleanup_listdir(p) ==
    LET r == relocate[p]
        folder == source_dir(movie[p])
    IN /\ r.pc = "listdir"
       /\ relocate' = [relocate EXCEPT ![p] =
              IF folder \in dirs
              THEN [@ EXCEPT !.pc = "items", !.items = listdir(fs, folder)]
              ELSE [@ EXCEPT !.pc = "done"]]
       /\ UNCHANGED <<fs, dirs, movie, cleanup_empty_folders, analyzeVars, pureVars>>

\* a slip that lets the OSError of os.remove leave the cleanup and rename_files
item_error_raised(r, path) ==
    [r EXCEPT !.pc = "done", !.raised = "OSError", !.failed = @ \cup {path}]

\* except OSError around the deletion of one item: logged, the loop goes on
item_error(r, path) ==
    [r EXCEPT !.items = Tail(@), !.failed = @ \cup {path}]

\* the loop body: remove a file, rmdir a sub-directory, skip anything else
cleanup_item(p) ==
    LET r == relocate[p]
        folder == source_dir(movie[p])
        item_path == Path(folder, Head(r.items))
    IN /\ r.pc = "items"
       /\ r.items # <<>>
       /\ \E oserror \in BOOLEAN :
            IF isfile(fs, item_path) \/ isdir(fs, item_path)
            THEN IF oserror
                 THEN /\ relocate' = [relocate EXCEPT ![p] = item_error(r, item_path)]
                      /\ UNCHANGED fs
                 ELSE /\ fs' = [fs EXCEPT ![item_path] = NoEnt]
                      /\ relocate' = [relocate EXCEPT ![p] =
                            [@ EXCEPT !.items = Tail(@), !.removed = @ \cup {item_path}]]
            ELSE /\ relocate' = [relocate EXCEPT ![p].items = Tail(@)]
                 /\ UNCHANGED fs
       /\ UNCHANGED <<dirs, movie, cleanup_empty_folders, analyzeVars, pureVars>>

\* os.rmdir(folder_path) after the loop; its OSError is logged and dropped
cleanup_rmdir(p) ==
    LET r == relocate[p]
        folder == source_dir(movie[p])
    IN /\ r.pc = "items"
       /\ r.items = <<>>
       /\ \E oserror \in BOOLEAN :
            IF folder \in dirs /\ listdir(fs, folder) = <<>> /\ ~oserror
            THEN /\ dirs' = dirs \ {folder}
                 /\ relocate' = [relocate EXCEPT ![p] = [@ EXCEPT !.pc = "done", !.rmdir = "ok"]]
            ELSE /\ relocate' = [relocate EXCEPT ![p] = [@ EXCEPT !.pc = "done", !.rmdir = "failed"]]
                 /\ UNCHANGED dirs
       /\ UNCHANGED <<fs, movie, cleanup_empty_folders, analyzeVars, pureVars>>

(***************************************************************************)
(* A direct call of is_folder_safe_to_delete (Analyze).                    *)
(***************************************************************************)
NoCall == [folder |-> [exists |-> FALSE, isdir |-> FALSE, oserror |-> FALSE, listing |-> <<>>],
           keep_video_extensions |-> [none |-> TRUE, exts |-> {}]]
NoRet == [returned |-> FALSE, safe |-> FALSE, reasons |-> <<>>]

Analyze ==
    /\ ~ret.returned
    /\ ret' = [returned |-> TRUE,
               safe |-> is_folder_safe_to_delete(call.folder, call.keep_video_extensions).safe,
               reasons |-> is_folder_safe_to_delete(call.folder, call.keep_video_extensions).reasons]
    /\ UNCHANGED <<call, relocVars, pureVars>>

(***************************************************************************)
(* Initial states.                                                         *)
(***************************************************************************)
InjSeqs(S, n) == {s \in [1..n -> S] : \A j, k \in 1..n : j # k => s[j] # s[k]}

\* where the files of a title may lie: under any source name in "in", and a part
\* kept in another directory
SrcPaths == [dir : {"in"}, name : SrcNames] \cup {Path("out", Name(<<"a">>, ".mp4"))}

\* the file lists of a title: distinct existing files, in part order; the first
\* lies in "in" (the two directories differ in nothing else)
FileLists == {s \in UNION {InjSeqs(SrcPaths, n) : n \in 1..MaxFiles} : s[1].dir = "in"}

NewMovie(id, files, save_dir, basename) ==
    [id |-> id, files |-> files, save_dir |-> save_dir, basename |-> basename,
     has_new_paths |-> FALSE, new_paths |-> <<>>]

NoMovie == NewMovie(0, <<>>, "in", "")

Locals(pc, use_hardlink) ==
    [pc |-> pc, i |-> 1, new_paths |-> <<>>, raised |-> "none", analyzed |-> FALSE,
     can_delete |-> FALSE, important_files |-> <<>>, items |-> <<>>, calls |-> 0,
     use_hardlink |-> use_hardlink, last |-> NoLast, dup_deleted |-> {}, created |-> {},
     removed |-> {}, failed |-> {}, rmdir |-> "none", at_cleanup |-> NoSnapshot]

FilesOf(m) == {m.files[k] : k \in DOMAIN m.files}

\* what else may lie on disk: a file at a destination, and in the source
\* directory another video, artwork, a small or a large unknown file, a sub-directory
ExtraCands(m) ==
    {e \in
        {[path |-> newpath(m, k), ent |-> File(20 + k, small_file_limit)] : k \in DOMAIN m.files}
        \cup {[path |-> Path(source_dir(m), NoteDat), ent |-> File(41, sz)] :
                sz \in {small_file_limit - 1, small_file_limit}}
        \cup {[path |-> Path(source_dir(m), Name(<<"a">>, ".mp4")), ent |-> File(42, 0)],
              [path |-> Path(source_dir(m), Name(<<"b">>, ".MKV")), ent |-> File(43, 0)],
              [path |-> Path(source_dir(m), PosterJpg), ent |-> File(44, 0)]}
        \cup {[path |-> Path(source_dir(m), SubDir), ent |-> SubDirEnt]}
     : e.path \notin FilesOf(m)}

ExtraSets(E) ==
    {X \in SUBSET E : /\ Cardinality(X) <= MaxExtras
                      /\ \A a, b \in X : a.path = b.path => a = b}

\* the disk holding the files of the titles ms (each file with data of its own) and X
Disk(ms, X) ==
    [path \in Paths |->
        IF \E m \in ms : path \in FilesOf(m)
        THEN LET m == CHOOSE m \in ms : path \in FilesOf(m)
                 k == CHOOSE k \in DOMAIN m.files : m.files[k] = path
             IN File(10 * m.id + k, small_file_limit)
        ELSE IF \E e \in X : e.path = path
        THEN (CHOOSE e \in X : e.path = path).ent
        ELSE NoEnt]

DirsOf(f) == {d \in Dirs : \E n \in NameUniverse : exists(f, Path(d, n))}

AnalyzeIdle == call = NoCall /\ ret = NoRet

\* one Movie, constructed and not yet renamed
Init ==
    \E files \in FileLists, save_dir \in Dirs, use_hardlink \in BOOLEAN :
      \E X \in ExtraSets(ExtraCands(NewMovie(1, files, save_dir, "X"))) :
        /\ movie = [p \in Procs |->
                      IF p = 1 THEN NewMovie(1, files, save_dir, "X") ELSE NoMovie]
        /\ fs = Disk({NewMovie(1, files, save_dir, "X")}, X)
        /\ dirs = DirsOf(Disk({NewMovie(1, files, save_dir, "X")}, X))
        /\ cleanup_empty_folders \in BOOLEAN
        /\ relocate = [p \in Procs |->
                         IF p = 1 THEN Locals("idle", use_hardlink) ELSE Locals("absent", FALSE)]
        /\ AnalyzeIdle
        /\ PureIdle

Next ==
    \E p \in Procs :
        \/ rename_files(p)
        \/ move_file(p)
        \/ assign_new_paths(p)
        \/ cleanup_analyze(p)
        \/ cleanup_listdir(p)
        \/ cleanup_item(p)
        \/ cleanup_rmdir(p)

Spec == Init /\ [][Next]_vars

(***************************************************************************)
(* Analyze on its own: the folder and the extension list drawn from bounded*)
(* sets.                                                                   *)
(***************************************************************************)
AnalyzeNames ==
    {Name(<<"poster">>, ".jpg"), Name(<<"movie">>, ".nfo"), Name(<<"movie">>, ".mkv"),
     Name(<<"MOVIE">>, ".MKV"), Name(<<".DS_Store">>, ""), Name(<<"n">>, ".dat")}

AnalyzeEntries ==
    {[name |-> n, isdir |-> FALSE, size |-> sz, getsize_raises |-> FALSE] :
        n \in AnalyzeNames, sz \in {small_file_limit - 1, small_file_limit}}
    \cup {[name |-> n, isdir |-> FALSE, size |-> 0, getsize_raises |-> TRUE] :
            n \in {Name(<<"n">>, ".dat"), Name(<<".DS_Store">>, "")}}
    \cup {[name |-> n, isdir |-> TRUE, size |-> 0, getsize_raises |-> FALSE] :
            n \in {Name(<<"n">>, ".dat"), Name(<<"movie">>, ".mkv")}}

Listings ==
    UNION {{s \in [1..n -> AnalyzeEntries] :
                \A j, k \in 1..n : j # k => s[j].name # s[k].name} : n \in 0..MaxListing}

Folders ==
    {[exists |-> TRUE, isdir |-> TRUE, oserror |-> FALSE, listing |-> l] : l \in Listings}
    \cup {[exists |-> e, isdir |-> d, oserror |-> o, listing |-> <<>>] :
            e \in BOOLEAN, d \in BOOLEAN, o \in BOOLEAN}

KeepLists ==
    {[none |-> TRUE, exts |-> {}]}
        \cup {[none |-> FALSE, exts |-> x] : x \in {{}, {".mkv"}, {".MKV", ".mp4"}}}

RelocIdle ==
    /\ movie = [p \in Procs |-> NoMovie]
    /\ fs = [path \in Paths |-> NoEnt]
    /\ dirs = {}
    /\ cleanup_empty_folders = FALSE
    /\ relocate = [p \in Procs |-> Locals("absent", FALSE)]

InitAnalyze ==
    /\ call \in [folder : {f \in Folders : f.isdir => f.exists},
                 keep_video_extensions : KeepLists]
    /\ ret = NoRet
    /\ RelocIdle
    /\ PureIdle

NextAnalyze == Analyze

SpecAnalyze == InitAnalyze /\ [][NextAnalyze]_vars

(***************************************************************************)
(* Two invocations at once, on titles with disjoint source and destination *)
(* paths: their file system steps interleave.                              *)
(***************************************************************************)
DestsOf(m) == {newpath(m, k) : k \in DOMAIN m.files}

Disjoint(m1, m2) ==
    /\ FilesOf(m1) \cap FilesOf(m2) = {}
    /\ DestsOf(m1) \cap DestsOf(m2) = {}
    /\ FilesOf(m1) \cap DestsOf(m2) = {}
    /\ FilesOf(m2) \cap DestsOf(m1) = {}

\* the second title lies in "out"
FileLists2 == {s \in UNION {InjSeqs(SrcPaths, n) : n \in 1..MaxFiles} : s[1].dir = "out"}

InitConc ==
    \E files1 \in FileLists, files2 \in FileLists2, save1 \in Dirs, save2 \in Dirs :
      \E use_hardlink \in BOOLEAN :
        /\ Disjoint(NewMovie(1, files1, save1, "X"), NewMovie(2, files2, save2, "X"))
        /\ movie = [p \in Procs |-> IF p = 1 THEN NewMovie(1, files1, save1, "X")
                                    ELSE NewMovie(2, files2, save2, "X")]
        /\ fs = Disk({NewMovie(1, files1, save1, "X"), NewMovie(2, files2, save2, "X")}, {})
        /\ dirs = Dirs
        /\ cleanup_empty_folders \in BOOLEAN
        /\ relocate = [p \in Procs |-> Locals("idle", use_hardlink)]
        /\ AnalyzeIdle
        /\ PureIdle

SpecConc == InitConc /\ [][Next]_vars

(***************************************************************************)
(* Text.  A str is a sequence of characters; a character is a string of    *)
(* length one, or the code point of a character outside ASCII ("U+65E0").   *)
(***************************************************************************)
ascii_lowercase ==
    <<"a", "b", "c", "d", "e", "f", "g", "h", "i", "j", "k", "l", "m",
      "n", "o", "p", "q", "r", "s", "t", "u", "v", "w", "x", "y", "z">>
ascii_uppercase ==
    <<"A", "B", "C", "D", "E", "F", "G", "H", "I", "J", "K", "L", "M",
      "N", "O", "P", "Q", "R", "S", "T", "U", "V", "W", "X", "Y", "Z">>

\* str.upper() of one character, of a str
upper_char(c) ==
    IF \E k \in DOMAIN ascii_lowercase : ascii_lowercase[k] = c
    THEN ascii_uppercase[CHOOSE k \in DOMAIN ascii_lowercase : ascii_lowercase[k] = c]
    ELSE c
upper(s) == [k \in DOMAIN s |-> upper_char(s[k])]

\* s.rfind(c) + 1: the last position of c in s, 0 when there is none
rfind(s, c) ==
    IF \E k \in DOMAIN s : s[k] = c
    THEN CHOOSE k \in DOMAIN s : s[k] = c /\ \A j \in DOMAIN s : s[j] = c => j <= k
    ELSE 0

\* os.path.basename
basename(path) == SubSeq(path, rfind(path, "/") + 1, Len(path))

\* os.path.splitext: the extension starts at the last dot, unless only dots
\* come before it in the file name
splitext(path) ==
    LET sepIndex == rfind(path, "/")
        dotIndex == rfind(path, ".")
    IN IF dotIndex > sepIndex /\ \E k \in (sepIndex + 1)..(dotIndex - 1) : path[k] # "."
       THEN [root |-> SubSeq(path, 1, dotIndex - 1), ext |-> SubSeq(path, dotIndex, Len(path))]
       ELSE [root |-> path, ext |-> <<>>]

\* the word w is at position k of s, letter case ignored (re.I)
StartsAt(s, k, w) ==
    /\ k >= 1 /\ k + Len(w) - 1 <= Len(s)
    /\ \A j \in DOMAIN w : upper_char(s[k + j - 1]) = upper_char(w[j])

(***************************************************************************)
(* detect_special_attr.                                                    *)
(***************************************************************************)
\* _PATTERN.search(base): uncen(sor(ed)?)?([- _\s]*leak(ed)?)? matches where
\* "uncen" is, the second alternative where one of the four CJK terms is
PATTERN_search(base) ==
    \E k \in DOMAIN base :
        \/ StartsAt(base, k, <<"u", "n", "c", "e", "n">>)
        \/ /\ k + 3 <= Len(base)
           /\ base[k] \in {"U+65E0", "U+7121"}
           /\ base[k + 1] \in {"U+7801", "U+78BC"}
           /\ SubSeq(base, k + 2, k + 3) \in {<<"U+6D41", "U+51FA">>, <<"U+7834", "U+89E3">>}

\* base.split('-')[-1]
postfix_of(base) == SubSeq(base, rfind(base, "-") + 1, Len(base))

\* re.sub(r'[_-]', '[_-]*', avid), one element per character of avid; of the
\* characters special to re only "(" occurs in the identifiers of the model
avid_pattern(avid) ==
    [k \in DOMAIN avid |->
        IF avid[k] \in {"_", "-"} THEN [kind |-> "seps", c |-> avid[k]]
        ELSE IF avid[k] = "(" THEN [kind |-> "open", c |-> avid[k]]
        ELSE [kind |-> "lit", c |-> avid[k]]]

\* re.search compiles the pattern: a "(" that is never closed is an re.error
compile_fails(pattern) == \E k \in DOMAIN pattern : pattern[k].kind = "open"

\* [_-]* takes every separator from pos on
skip_seps(base, pos) ==
    CHOOSE q \in pos..(Len(base) + 1) :
        /\ \A j \in pos..(q - 1) : base[j] \in {"_", "-"}
        /\ q = Len(base) + 1 \/ base[q] \notin {"_", "-"}

RECURSIVE match_avid(_, _, _, _)
\* where the elements j.. of the pattern end when matched from pos, 0 if they
\* do not match there
match_avid(pattern, j, base, pos) ==
    IF j > Len(pattern) THEN pos
    ELSE IF pattern[j].kind = "seps" THEN match_avid(pattern, j + 1, base, skip_seps(base, pos))
    ELSE IF pos <= Len(base) /\ upper_char(base[pos]) = upper_char(pattern[j].c)
         THEN match_avid(pattern, j + 1, base, pos + 1)
    ELSE 0

\* \w
is_word(c) == c \notin {"-", ".", "/", "(", " "}

\* a boundary wherever asked (the mutant of \b)
no_boundary(base, k) == TRUE

\* \b at position k, after a letter
word_boundary(base, k) == k > Len(base) \/ ~is_word(base[k])

\* (UC|U|C)\b at position e: what group(1) is, <<>> when it does not match
suffix_group(base, e) ==
    IF StartsAt(base, e, <<"U", "C">>) /\ word_boundary(base, e + 2) THEN SubSeq(base, e, e + 1)
    ELSE IF StartsAt(base, e, <<"U">>) /\ word_boundary(base, e + 1) THEN SubSeq(base, e, e)
    ELSE IF StartsAt(base, e, <<"C">>) /\ word_boundary(base, e + 1) THEN SubSeq(base, e, e)
    ELSE <<>>

\* re.search(pattern_str, base, flags=re.I): group(1) of the leftmost match
avid_search(avid, base) ==
    LET pattern == avid_pattern(avid)
        ends == [k \in 1..(Len(base) + 1) |-> match_avid(pattern, 1, base, k)]
        starts == {k \in DOMAIN ends : ends[k] # 0 /\ suffix_group(base, ends[k]) # <<>>}
    IN IF starts = {} THEN <<>>
       ELSE suffix_group(base, ends[CHOOSE k \in starts : \A j \in starts : k <= j])

\* ord() of the characters a result can hold
ord(c) == CASE c = "C" -> 67 [] c = "U" -> 85 [] c = "c" -> 99 [] c = "u" -> 117 [] OTHER -> 0

RECURSIVE sorted_reverse(_)
\* sorted(S, reverse=True)
sorted_reverse(S) ==
    IF S = {} THEN <<>>
    ELSE LET m == CHOOSE x \in S : \A y \in S : ord(y) <= ord(x)
         IN <<m>> \o sorted_reverse(S \ {m})

\* the letters as collected (the mutant of the final formatting)
format_as_collected(result) == result

\* ''.join(sorted(set(result), reverse=True))
format_result(result) == sorted_reverse({result[k] : k \in DOMAIN result})

\* avid is [none |-> TRUE] for None, else [none |-> FALSE, s |-> the identifier]
detect_special_attr(filepath, avid) ==
    LET base == upper(splitext(basename(filepath)).root)
        result == IF PATTERN_search(base) THEN <<"U">> ELSE <<>>
        postfix == postfix_of(base)
    IN IF postfix \in {<<"U">>, <<"C">>, <<"U", "C">>}
       THEN [raised |-> "none", result |-> format_result(result \o postfix)]
       ELSE IF ~avid.none /\ avid.s # <<>>
       THEN IF compile_fails(avid_pattern(avid.s))
            THEN [raised |-> "re.error", result |-> <<>>]
            ELSE [raised |-> "none", result |-> format_result(result \o avid_search(avid.s, base))]
       ELSE [raised |-> "none", result |-> format_result(result)]

\* a call of detect_special_attr
Detect ==
    /\ ~detect.returned /\ detect.raised = "none"
    /\ LET out == detect_special_attr(detect.filepath, detect.avid)
       IN detect' = [detect EXCEPT !.returned = (out.raised = "none"),
                                   !.raised = out.raised,
                                   !.result = out.result]
    /\ UNCHANGED <<relocVars, analyzeVars, trunc, fetch>>

(***************************************************************************)
(* detect_special_attr on its own: file paths put together from pieces,    *)
(* identifiers from a list.                                                *)
(***************************************************************************)
MaxPieces == 2      \* pieces of a file name after its stem

TITLE_001 == <<"T", "I", "T", "L", "E", "-", "0", "0", "1">>
ipx_177 == <<"i", "p", "x", "-", "1", "7", "7">>

\* a file path is a directory, a stem, some pieces and an extension
Folders_of_path == {<<>>, <<"u", "n", "c", "e", "n", "/">>}

Stems == {<<>>, TITLE_001, ipx_177}

Pieces ==
    {<<"-">>, <<"_">>, <<"U">>, <<"C">>, <<"-", "U", "C">>, <<"c", "d", "1">>,
     <<"-", "L", "E", "A", "K", "E", "D">>, <<"u", "n", "c", "e", "n">>,
     <<"U+65E0", "U+7801", "U+6D41", "U+51FA">>}

Extensions == {<<".", "e", "x", "t">>, <<".", "m", "p", "4">>}

RECURSIVE join(_)
\* ''.join(pieces)
join(pieces) == IF pieces = <<>> THEN <<>> ELSE Head(pieces) \o join(Tail(pieces))

FilePaths ==
    {d \o st \o join(ps) \o e :
        d \in Folders_of_path, st \in Stems,
        ps \in UNION {[1..n -> Pieces] : n \in 0..MaxPieces}, e \in Extensions}

Avids ==
    {[none |-> TRUE, s |-> <<>>], [none |-> FALSE, s |-> <<>>],
     [none |-> FALSE, s |-> TITLE_001],
     [none |-> FALSE, s |-> <<"I", "P", "X", "-", "1", "7", "7">>],
     [none |-> FALSE, s |-> <<"i", "p", "x", "_", "1", "7", "7">>],
     [none |-> FALSE, s |-> <<"(", "i", "p", "x">>]}

InitDetect ==
    /\ detect \in {[NoDetect EXCEPT !.filepath = f, !.avid = a] : f \in FilePaths, a \in Avids}
    /\ trunc = NoTrunc
    /\ fetch = NoFetch
    /\ RelocIdle
    /\ AnalyzeIdle

NextDetect == Detect

SpecDetect == InitDetect /\ [][NextDetect]_vars

(***************************************************************************)
(* truncate_filename.  A byte of the UTF-8 encoding of a str is kept as    *)
(* the character it belongs to, its place k in that character's encoding   *)
(* and the width n of that encoding.                                       *)
(***************************************************************************)
\* the number of bytes of c.encode('utf-8'): one for ASCII, two from U+0080,
\* three from U+0800 (code points are written with four hexadecimal digits)
utf8_width(c) ==
    IF c \in {"U+00B7"} THEN 2
    ELSE IF c \in {"U+4E2D", "U+3002", "U+FF01", "U+FF1F", "U+FF1B", "U+FF0C", "U+3001",
                   "U+FF1A", "U+FF08", "U+FF09", "U+3010", "U+3011", "U+300A", "U+300B",
                   "U+3008", "U+3009", "U+2026", "U+FF5E", "U+2014"} THEN 3
    ELSE 1

RECURSIVE encode(_)
\* s.encode('utf-8')
encode(s) ==
    IF s = <<>> THEN <<>>
    ELSE [k \in 1..utf8_width(Head(s)) |-> [c |-> Head(s), k |-> k, n |-> utf8_width(Head(s))]]
            \o encode(Tail(s))

\* bs.decode('utf-8') does not raise: every character is there with all its bytes
decodable(bs) ==
    \A i \in DOMAIN bs :
        /\ bs[i].k = 1 \/ (i > 1 /\ bs[i - 1].c = bs[i].c /\ bs[i - 1].k = bs[i].k - 1)
        /\ bs[i].k = bs[i].n \/ (i < Len(bs) /\ bs[i + 1].c = bs[i].c /\ bs[i + 1].k = bs[i].k + 1)

RECURSIVE decode_ignore(_)
\* bs.decode('utf-8', errors='ignore'): the characters that are there in full
decode_ignore(bs) ==
    IF bs = <<>> THEN <<>>
    ELSE IF /\ Head(bs).k = 1 /\ Len(bs) >= Head(bs).n
            /\ \A j \in 1..Head(bs).n : bs[j].c = Head(bs).c /\ bs[j].k = j
         THEN <<Head(bs).c>> \o decode_ignore(SubSeq(bs, Head(bs).n + 1, Len(bs)))
         ELSE decode_ignore(Tail(bs))

RECURSIVE trim_to_char(_)
\* while bs: try bs.decode('utf-8'), break; except UnicodeDecodeError: bs = bs[:-1]
trim_to_char(bs) ==
    IF bs = <<>> \/ decodable(bs) THEN bs ELSE trim_to_char(SubSeq(bs, 1, Len(bs) - 1))

\* s[:n]
slice(s, n) ==
    IF n >= 0 THEN SubSeq(s, 1, IF n < Len(s) THEN n ELSE Len(s))
    ELSE SubSeq(s, 1, IF Len(s) + n > 0 THEN Len(s) + n ELSE 0)

\* get_length
get_length(s, by_byte) == IF by_byte THEN Len(encode(s)) ELSE Len(s)

\* the punctuation the name is cut at
punctuation_chars ==
    {"U+3002", "U+FF01", "U+FF1F", "U+FF1B", "U+FF0C", "U+3001", "U+FF1A", "\"",
     "U+FF08", "U+FF09", "U+3010", "U+3011", "U+300A", "U+300B", "U+3008", "U+3009",
     "U+2026", "U+00B7", "U+FF5E", "U+2014", "-", "_", "=", "+", "|", "\\", "/",
     "*", "&", "^", "%", "$", "#", "@"}

RECURSIVE split_parts(_, _)
\* the parts of base_name, each ending with its punctuation character
split_parts(base_name, current_part) ==
    IF base_name = <<>> THEN (IF current_part # <<>> THEN <<current_part>> ELSE <<>>)
    ELSE IF Head(base_name) \in punctuation_chars
         THEN <<Append(current_part, Head(base_name))>> \o split_parts(Tail(base_name), <<>>)
         ELSE split_parts(Tail(base_name), Append(current_part, Head(base_name)))

\* nothing of the part that does not fit (the mutant of the partial part)
take_nothing(part, remaining_length, by_byte) == <<>>

\* what is added of the part that does not fit whole
take_part(part, remaining_length, by_byte) ==
    IF by_byte THEN decode_ignore(trim_to_char(slice(encode(part), remaining_length)))
    ELSE slice(part, remaining_length)

RECURSIVE accumulate(_, _, _, _)
\* for part in parts: take the part while it fits, a piece of the first that does not
accumulate(parts, result, available_length, by_byte) ==
    IF parts = <<>> THEN result
    ELSE IF get_length(result \o Head(parts), by_byte) <= available_length
         THEN accumulate(Tail(parts), result \o Head(parts), available_length, by_byte)
    ELSE IF available_length - get_length(result, by_byte) > 0
         THEN result \o take_part(Head(parts), available_length - get_length(result, by_byte),
                                  by_byte)
    ELSE result

\* the base name kept whole (the mutant of the simple truncation)
flat_keep(base_name, available_length, by_byte) == base_name

\* the simple truncation of base_name
flat_truncate(base_name, available_length, by_byte) ==
    IF by_byte THEN decode_ignore(trim_to_char(slice(encode(base_name), available_length)))
    ELSE slice(base_name, available_length)

\* get_length(filename) <= max_length
fits(filename, max_length, by_byte) == get_length(filename, by_byte) <= max_length

\* the whole limit left for the base name (the mutant of the reserve)
available_ignoring_ext(max_length, ext_length) == max_length

\* available_length = max_length - ext_length
available(max_length, ext_length) == max_length - ext_length

truncate_filename(filename, max_length, by_byte, preserve_ext) ==
    IF filename = <<>> THEN filename
    ELSE LET split == IF preserve_ext THEN splitext(filename)
                      ELSE [root |-> filename, ext |-> <<>>]
             base_name == split.root
             ext == split.ext
             ext_length == get_length(ext, by_byte)
             available_length == available(max_length, ext_length)
             result == accumulate(split_parts(base_name, <<>>), <<>>, available_length, by_byte)
         IN IF fits(filename, max_length, by_byte) THEN filename
            ELSE IF available_length <= 0
            THEN IF preserve_ext /\ ext_length > 0
                 THEN IF ~by_byte THEN slice(ext, max_length)
                      ELSE decode_ignore(slice(encode(ext), max_length))
                 ELSE <<>>
            ELSE (IF result = <<>> \/ get_length(result, by_byte) > available_length
                  THEN flat_truncate(base_name, available_length, by_byte)
                  ELSE result) \o ext

\* a call of truncate_filename
Truncate ==
    /\ trunc.calls = 0
    /\ trunc' = [trunc EXCEPT !.calls = 1,
                    !.result = truncate_filename(trunc.filename, trunc.max_length,
                                                 trunc.by_byte, trunc.preserve_ext)]
    /\ UNCHANGED <<relocVars, analyzeVars, detect, fetch>>

\* a second call, on the result of the first and with the same parameters
TruncateAgain ==
    /\ trunc.calls = 1
    /\ trunc' = [trunc EXCEPT !.calls = 2,
                    !.again = truncate_filename(trunc.result, trunc.max_length,
                                                trunc.by_byte, trunc.preserve_ext)]
    /\ UNCHANGED <<relocVars, analyzeVars, detect, fetch>>

(***************************************************************************)
(* truncate_filename on its own: every name of a few characters, every     *)
(* small limit, both units, with and without the extension kept.           *)
(***************************************************************************)
MaxNameLen == 4     \* characters of a file name
MaxLimit == 6       \* max_length

\* a letter, a punctuation character, the dot, a character of three bytes
NameChars == {"a", "-", ".", "U+4E2D"}

FileNames == UNION {[1..n -> NameChars] : n \in 0..MaxNameLen}

InitTruncate ==
    /\ trunc \in {[NoTrunc EXCEPT !.filename = f, !.max_length = m,
                                  !.by_byte = b, !.preserve_ext = e] :
                    f \in FileNames, m \in 0..MaxLimit, b \in BOOLEAN, e \in BOOLEAN}
    /\ detect = NoDetect
    /\ fetch = NoFetch
    /\ RelocIdle
    /\ AnalyzeIdle

NextTruncate == Truncate \/ TruncateAgain

SpecTruncate == InitTruncate /\ [][NextTruncate]_vars

(***************************************************************************)
(* EnhancedSession.get_with_retry (src/javsp/web/javbus2.py).  The call    *)
(* starts with max_attempts resolved, last_exception None and              *)
(* connection_tested False; one step is one pass of the for loop (one      *)
(* self.session.get and the except clause that handles what it gave), the  *)
(* last step is what follows the loop.  fetch.attempt is the index of the  *)
(* pass to come, fetch.sent the replies to the GET requests sent so far.   *)
(* The sleep before a retry changes no state.                              *)
(***************************************************************************)
MaxAttempts == 3    \* max_attempts

\* what one self.session.get gives: a response with a status code, or an exception
StatusCodes == {200, 204, 403, 404, 500, 503}
Failures == {"ssl.SSLError", "requests.SSLError", "ConnectionError", "ValueError",
             "KeyboardInterrupt"}
Replies == {[status_code |-> c, exc |-> "None"] : c \in StatusCodes}
             \cup {[status_code |-> 0, exc |-> e] : e \in Failures}

\* the exceptions of javsp.web.exceptions that get_with_retry raises; they derive from Exception
CrawlerErrors == {"MovieNotFoundError", "SiteBlocked"}

\* the classes each except clause of get_with_retry names
SSLErrors == {"ssl.SSLError", "requests.SSLError"}
RequestExceptions == {"requests.SSLError", "ConnectionError", "HTTPError", "RequestException"}
Exceptions == SSLErrors \cup RequestExceptions \cup CrawlerErrors \cup {"ValueError"}

\* response.raise_for_status(): HTTPError for a 4xx or 5xx status, nothing otherwise
raise_for_status(status_code) ==
    IF status_code >= 400 /\ status_code < 600 THEN "HTTPError" ELSE "None"

\* the try block of one pass: the response returned, or the exception raised in it, or neither
try_block(reply, attempt, max_attempts) ==
    IF reply.exc # "None" THEN [returns |-> FALSE, raises |-> reply.exc]
    ELSE IF reply.status_code = 200 THEN [returns |-> TRUE, raises |-> "None"]
    ELSE IF reply.status_code = 404 THEN [returns |-> FALSE, raises |-> "MovieNotFoundError"]
    ELSE IF reply.status_code \in {403, 503}
         THEN [returns |-> FALSE,
               raises |-> IF attempt = max_attempts - 1 THEN "SiteBlocked" ELSE "None"]
    ELSE [returns |-> FALSE, raises |-> raise_for_status(reply.status_code)]

\* the except clause that handles an exception raised in the try block: the first that matches
except_clause(exc) ==
    IF exc \in SSLErrors THEN "ssl"
    ELSE IF exc \in RequestExceptions THEN "request"
    ELSE IF exc \in Exceptions THEN "exception"
    ELSE "uncaught"

\* what the clause raises on the last pass
reraised(clause, exc) == IF clause = "ssl" THEN "RequestException" ELSE exc

finished(f, outcome, value, status_code) ==
    [f EXCEPT !.pc = "done", !.outcome = outcome, !.value = value, !.status_code = status_code]

\* one pass of the loop, given the reply to its GET request
loop_pass(f, reply) ==
    LET r == try_block(reply, f.attempt, f.max_attempts)
        clause == except_clause(r.raises)
        g == [f EXCEPT !.sent = Append(@, reply)]
        h == [g EXCEPT !.last_exception = r.raises,
                       !.connection_tested = @ \/ (clause = "request" /\ f.attempt = 0),
                       !.tests = IF clause = "request" /\ ~f.connection_tested /\ f.attempt = 0
                                 THEN @ + 1 ELSE @]
    IN  IF r.returns THEN finished(g, "returned", "Response", reply.status_code)
        ELSE IF r.raises = "None" THEN [g EXCEPT !.attempt = @ + 1]
        ELSE IF clause = "uncaught" THEN finished(g, "raised", r.raises, 0)
        ELSE IF f.attempt = f.max_attempts - 1
             THEN finished(h, "raised", reraised(clause, r.raises), 0)
        ELSE [h EXCEPT !.attempt = @ + 1]

\* after the loop: the last exception is raised if there is one; else the function ends, None
after_loop(f) ==
    IF f.last_exception # "None" THEN finished(f, "raised", f.last_exception, 0)
    ELSE finished(f, "returned", "None", 0)

LoopPass ==
    /\ fetch.pc = "loop"
    /\ fetch.attempt < fetch.max_attempts
    /\ \E reply \in Replies : fetch' = loop_pass(fetch, reply)
    /\ UNCHANGED <<relocVars, analyzeVars, detect, trunc>>

AfterLoop ==
    /\ fetch.pc = "loop"
    /\ fetch.attempt >= fetch.max_attempts
    /\ fetch' = after_loop(fetch)
    /\ UNCHANGED <<relocVars, analyzeVars, detect, trunc>>

InitFetch ==
    /\ fetch \in {[NoFetch EXCEPT !.pc = "loop", !.max_attempts = m] : m \in 0..MaxAttempts}
    /\ detect = NoDetect
    /\ trunc = NoTrunc
    /\ RelocIdle
    /\ AnalyzeIdle

NextFetch == LoopPass \/ AfterLoop

SpecFetch == InitFetch /\ [][NextFetch]_vars

(***************************************************************************)
(* The claims.  In Spec the one invocation is invocation 1.                *)
(***************************************************************************)
Range(seq) == {seq[k] : k \in DOMAIN seq}

\* C1: whenever rename_files deleted a source because its destination existed,
\* a file exists at that destination from then on, for every set (a source that
\* is its own destination, a destination that is another part's source).
C1_DuplicateKeepsDestination ==
    \A i \in relocate[1].dup_deleted : exists(fs, newpath(movie[1], i))

\* C2: right after a pass that found the destination present and could delete
\* the source: the source is gone, the pass added no new path, the file at the
\* destination is the one that was there, and nothing was raised.
C2_DuplicateResolved ==
    LET r == relocate[1] IN
    (r.last.outcome = "dup_deleted" /\ r.pc \in {"loop", "assign"}) =>
        /\ ~exists(fs, r.last.src)
        /\ r.last.dst \notin Range(r.new_paths)
        /\ fs[r.last.dst] = r.last.dst_before
        /\ r.raised = "none"

\* C3: a pass whose source file is absent (as in a second rename_files of a set
\* already moved) raises nothing, and the loop goes on to the next part.
C3_SourceMissingNotFatal ==
    LET r == relocate[1] IN
    (r.last.outcome # "none" /\ r.last.src_before.kind = "none") =>
        /\ r.raised = "none"
        /\ r.i = r.last.i + 1

\* C4: of two invocations on disjoint titles, the cleanup of neither deletes a
\* file the other created or has still to relocate.
C4_NoForeignDeletion ==
    \A p \in Procs : \A q \in Procs \ {p} :
        relocate[p].removed \cap (relocate[q].created \cup FilesOf(movie[q])) = {}

\* the name the claim gives part i of title m
ExpectedName(m, i) ==
    IF Len(m.files) = 1 THEN Name(<<m.basename>>, m.files[i].name.ext)
    ELSE Name(<<m.basename, "-CD", str(i)>>, m.files[i].name.ext)

RECURSIVE ExpectedNewPaths(_, _, _)
\* the expected paths of the parts 1..n that were not duplicates, in part order
ExpectedNewPaths(m, n, dup) ==
    IF n = 0 THEN <<>>
    ELSE ExpectedNewPaths(m, n - 1, dup)
            \o (IF n \in dup THEN <<>> ELSE <<Path(m.save_dir, ExpectedName(m, n))>>)

\* C5: a single file goes to save_dir/{basename}{ext}, part i of several to
\* save_dir/{basename}-CD{i}{ext} with its own extension; the parts are taken in
\* order and new_paths lists the created paths in that order.
C5_DestinationNaming ==
    LET r == relocate[1]
        m == movie[1]
    IN /\ r.last.outcome \in {"created", "dup_deleted"} => r.i = r.last.i + 1
       /\ r.last.outcome # "none" => r.last.src = m.files[r.last.i]
       /\ (r.last.outcome = "created" /\ r.pc \in {"loop", "assign"}) =>
            /\ isfile(fs, Path(m.save_dir, ExpectedName(m, r.last.i)))
            /\ fs[Path(m.save_dir, ExpectedName(m, r.last.i))].ino = r.last.src_before.ino
       /\ r.pc \in {"loop", "assign", "cleanup", "listdir", "items", "done"} =>
            r.new_paths = ExpectedNewPaths(m, r.i - 1, r.dup_deleted)

\* two parts with different extensions, both relocated
C5_Witness ==
    /\ relocate[1].pc = "assign"
    /\ Len(movie[1].files) = 2
    /\ movie[1].files[1].name.ext # movie[1].files[2].name.ext
    /\ Len(relocate[1].new_paths) = 2

\* C6: when the destination exists and the source cannot be deleted, rename_files
\* raises FileExistsError, source and destination stay as they were, no later
\* part is taken and the cleanup does not run.
C6_DuplicateUndeletable ==
    LET r == relocate[1] IN
    r.last.outcome = "dup_undeletable" =>
        /\ r.raised = "FileExistsError"
        /\ r.pc = "done"
        /\ fs[r.last.src] = r.last.src_before
        /\ fs[r.last.dst] = r.last.dst_before
        /\ r.i = r.last.i
        /\ ~r.at_cleanup.taken /\ ~r.analyzed /\ r.removed = {} /\ r.rmdir = "none"

\* the first of two parts is a duplicate that cannot be deleted, cleanup is on
C6_Witness ==
    /\ relocate[1].last.outcome = "dup_undeletable"
    /\ relocate[1].last.src_before.kind = "file"
    /\ relocate[1].last.i < Len(movie[1].files)
    /\ cleanup_empty_folders

\* C7: when a pass fails after earlier parts were relocated, the error reaches
\* the caller, the earlier parts stay at their destinations, and the paths
\* created so far are in the outcome (self.new_paths).
C7_PartialRelocationSurfaced ==
    LET r == relocate[1] IN
    (r.last.outcome = "failed" /\ r.new_paths # <<>>) =>
        /\ r.raised # "none" /\ r.pc = "done" /\ r.i = r.last.i
        /\ \A path \in r.created : isfile(fs, path)
        /\ movie[1].has_new_paths
        /\ movie[1].new_paths = r.new_paths

\* the extension of a file is one of Cfg().scanner.filename_extensions
ImportantExt(name, exts) == lower(name.ext) \in {lower(e) : e \in exts}

\* C8: after an unsafe verdict the cleanup changes nothing: the directory and
\* all its entries are as found; and the cleanup never deletes a file with an
\* important extension.
C8_UnsafeFolderUntouched ==
    LET r == relocate[1] IN
    /\ (r.analyzed /\ ~r.can_delete) =>
          /\ r.pc = "done"
          /\ fs = r.at_cleanup.fs /\ dirs = r.at_cleanup.dirs
          /\ source_dir(movie[1]) \in dirs
          /\ r.removed = {} /\ r.rmdir = "none"
    /\ \A path \in r.removed : ~ImportantExt(path.name, filename_extensions)

\* the source directory was judged unsafe because of a video file
C8_Witness ==
    /\ relocate[1].analyzed /\ ~relocate[1].can_delete
    /\ \E k \in DOMAIN relocate[1].important_files :
          relocate[1].important_files[k].kind = "video"

\* C9: after a safe verdict every file of the source directory is deleted and
\* the directory removed, except where a deletion or the rmdir failed; such a
\* failure raises nothing and leaves new_paths as assigned.
C9_SafeFolderCleaned ==
    LET r == relocate[1]
        d == source_dir(movie[1])
    IN (r.analyzed /\ r.can_delete) =>
        /\ r.raised = "none"
        /\ movie[1].has_new_paths /\ movie[1].new_paths = r.new_paths
        /\ r.pc = "done" =>
            /\ \A n \in NameUniverse :
                  isfile(r.at_cleanup.fs, Path(d, n)) =>
                      ~exists(fs, Path(d, n)) \/ Path(d, n) \in r.failed
            /\ d \notin dirs \/ r.failed # {} \/ r.rmdir = "failed"

\* a safe verdict, the files of the source directory deleted, the directory removed
C9_Witness ==
    /\ relocate[1].analyzed /\ relocate[1].can_delete /\ relocate[1].pc = "done"
    /\ relocate[1].removed # {}
    /\ relocate[1].rmdir = "ok"

\* an entry blocks the deletion of its folder
Blocking(e, exts) ==
    \/ e.isdir
    \/ ImportantExt(e.name, exts)
    \/ /\ item_lower(e.name).ext \notin deletable_extensions
       /\ item_lower(e.name) \notin deletable_filenames
       /\ ~(~e.getsize_raises /\ e.size < small_file_limit)

ListedNames(folder) == {folder.listing[k].name : k \in DOMAIN folder.listing}
OnlyFiles(folder) == \A k \in DOMAIN folder.listing : ~folder.listing[k].isdir

\* C10: a listed directory is safe exactly when no entry is a sub-directory, a
\* file with an important extension, or a file that is neither deletable by
\* extension or name nor small; the important extension comes first: poster.jpg
\* with movie.nfo is safe, and with movie.mkv (of any size) unsafe with a reason
\* naming movie.mkv.
C10_Classification ==
    LET folder == call.folder
        exts == IF call.keep_video_extensions.none THEN default_video_extensions
                ELSE call.keep_video_extensions.exts
    IN (ret.returned /\ folder.exists /\ folder.isdir /\ ~folder.oserror) =>
        /\ ret.safe = (\A k \in DOMAIN folder.listing : ~Blocking(folder.listing[k], exts))
        /\ \A k \in DOMAIN folder.listing :
              (~folder.listing[k].isdir /\ ImportantExt(folder.listing[k].name, exts))
                  => Reason("video", folder.listing[k].name) \in Range(ret.reasons)
        /\ (OnlyFiles(folder)
              /\ ListedNames(folder) = {Name(<<"poster">>, ".jpg"), Name(<<"movie">>, ".nfo")})
              => ret.safe /\ ret.reasons = <<>>
        /\ (OnlyFiles(folder) /\ ".mkv" \in exts
              /\ ListedNames(folder) = {Name(<<"poster">>, ".jpg"), Name(<<"movie">>, ".nfo"),
                                         Name(<<"movie">>, ".mkv")})
              => ~ret.safe /\ \E k \in DOMAIN ret.reasons :
                                  ret.reasons[k].item = Name(<<"movie">>, ".mkv")

\* poster.jpg, movie.nfo and a small movie.mkv, with .mkv important
C10_Witness ==
    /\ ret.returned /\ ~ret.safe
    /\ OnlyFiles(call.folder) /\ ~call.folder.oserror
    /\ ListedNames(call.folder) = {Name(<<"poster">>, ".jpg"), Name(<<"movie">>, ".nfo"),
                                   Name(<<"movie">>, ".mkv")}
    /\ \A k \in DOMAIN call.folder.listing : call.folder.listing[k].size < small_file_limit
    /\ ~call.keep_video_extensions.none /\ ".mkv" \in call.keep_video_extensions.exts

\* C11: for a path that does not exist or is not a directory the verdict is safe
\* with no reasons; when listing an existing directory fails the verdict is
\* unsafe with one diagnostic reason, nothing is raised; the call changes
\* nothing on disk.
C11_MissingOrUnlistable ==
    ret.returned =>
        /\ (~call.folder.exists \/ ~call.folder.isdir) => (ret.safe /\ ret.reasons = <<>>)
        /\ (call.folder.exists /\ call.folder.isdir /\ call.folder.oserror) =>
              (~ret.safe /\ ret.reasons = <<Reason("access", NoName)>>)
        /\ fs = [path \in Paths |-> NoEnt] /\ dirs = {}

\* the path exists and is a file, not a directory
C11_Witness ==
    ret.returned /\ call.folder.exists /\ ~call.folder.isdir /\ ret.safe

\* the names of the blocking entries of a listing, in listing order
BlockingNames(listing, exts) ==
    LET blocking == SelectSeq(listing, LAMBDA e : Blocking(e, exts))
    IN [k \in DOMAIN blocking |-> blocking[k].name]

\* C12: for every input the verdict is safe exactly when it has no reasons, and
\* for a listed directory the reasons name the blocking entries, one each, in
\* listing order.
C12_SafeIffNoReasons ==
    LET folder == call.folder
        exts == IF call.keep_video_extensions.none THEN default_video_extensions
                ELSE call.keep_video_extensions.exts
    IN ret.returned =>
        /\ ret.safe <=> (ret.reasons = <<>>)
        /\ (folder.exists /\ folder.isdir /\ ~folder.oserror) =>
              [k \in DOMAIN ret.reasons |-> ret.reasons[k].item]
                  = BlockingNames(folder.listing, exts)

\* two blocking entries with a harmless one between them
C12_Witness ==
    /\ ret.returned /\ Len(call.folder.listing) = 3 /\ Len(ret.reasons) = 2
    /\ ret.reasons[1].item = call.folder.listing[1].name
    /\ ret.reasons[2].item = call.folder.listing[3].name
    /\ ret.reasons[1].kind # ret.reasons[2].kind

\* C19: a pass that finds no file at the destination and succeeds: with
\* use_hardlink source and destination both exist afterwards and are the same
\* data; without it the destination holds the data and the source path is gone;
\* in both modes the destination is appended to new_paths and no other file
\* changes.
C19_RelocationModeEffect ==
    [][\A p \in Procs :
        (/\ relocate[p].pc = "loop"
         /\ relocate'[p].i = relocate[p].i + 1
         /\ relocate'[p].last.outcome = "created") =>
            LET r == relocate[p]
                src == movie[p].files[r.i]
                dst == newpath(movie[p], r.i)
            IN /\ ~exists(fs, dst)
               /\ isfile(fs', dst) /\ fs'[dst] = fs[src]
               /\ r.use_hardlink => fs'[src] = fs[src]
               /\ ~r.use_hardlink => ~exists(fs', src)
               /\ relocate'[p].new_paths = Append(r.new_paths, dst)
               /\ \A path \in Paths \ {src, dst} : fs'[path] = fs[path]]_vars

\* a part was hard-linked: both names exist and are one file
C19_Witness ==
    LET r == relocate[1] IN
    /\ r.last.outcome = "created" /\ r.use_hardlink
    /\ isfile(fs, r.last.src) /\ isfile(fs, r.last.dst)
    /\ fs[r.last.src].ino = fs[r.last.dst].ino
    /\ r.last.dst \in Range(r.new_paths)

\* the upper-cased base name detect_special_attr looks at
BaseOf(filepath) == upper(splitext(basename(filepath)).root)

Contains(s, w) ==
    \E k \in DOMAIN s : k + Len(w) - 1 <= Len(s) /\ SubSeq(s, k, k + Len(w) - 1) = w

\* the base name holds one of the keywords for uncensored: UNCENSORED and UNCEN
\* (both hold UNCEN), LEAK and LEAKED (both hold LEAK), the CJK terms
HasUncensoredKeyword(base) ==
    \/ Contains(base, <<"U", "N", "C", "E", "N">>)
    \/ Contains(base, <<"L", "E", "A", "K">>)
    \/ \E a \in {"U+65E0", "U+7121"}, b \in {"U+7801", "U+78BC"},
          t \in {<<"U+6D41", "U+51FA">>, <<"U+7834", "U+89E3">>} : Contains(base, <<a, b>> \o t)

\* C14: a file whose base name holds an uncensored keyword gets a tag with U;
\* detect_special_attr("TITLE-001-LEAKED.ext", "TITLE-001") is "U".
C14_UncensoredKeywords ==
    detect.returned =>
        /\ HasUncensoredKeyword(BaseOf(detect.filepath)) =>
              \E k \in DOMAIN detect.result : detect.result[k] = "U"
        /\ (/\ detect.filepath = TITLE_001 \o <<"-", "L", "E", "A", "K", "E", "D", ".", "e", "x", "t">>
            /\ detect.avid = [none |-> FALSE, s |-> TITLE_001]) => detect.result = <<"U">>

\* s without its hyphens and underscores
Strip(s) == SelectSeq(s, LAMBDA c : c \notin {"_", "-"})

RECURSIVE Collapse(_)
\* s with every run of hyphens and underscores turned into one hyphen
Collapse(s) ==
    IF s = <<>> THEN <<>>
    ELSE LET c == IF Head(s) = "_" THEN "-" ELSE Head(s)
             rest == Collapse(Tail(s))
         IN IF c = "-" /\ rest # <<>> /\ Head(rest) = "-" THEN rest ELSE <<c>> \o rest

EndsWith(s, w) == Len(w) <= Len(s) /\ SubSeq(s, Len(s) - Len(w) + 1, Len(s)) = w

\* the letters w stand at position e of base and a word ends after them
LettersAt(base, e, w) ==
    /\ e >= 1 /\ e + Len(w) - 1 <= Len(base) /\ SubSeq(base, e, e + Len(w) - 1) = w
    /\ e + Len(w) > Len(base) \/ base[e + Len(w)] \in {"-", ".", "/", "(", " "}

\* C15: when what follows the last hyphen of the base name is U, C or UC those
\* letters are in the tag and the identifier plays no part (the tag is the one
\* given without an identifier); otherwise an identifier gives letters only
\* where it is directly followed by UC, U or C at the end of a word, and gives
\* some where it stands so in the base name; without an identifier only the
\* keyword counts.  "TITLE-001-UC.ext" with TITLE-001 gives "UC",
\* "TITLE-001.ext" gives "", "ipx-177cd1.mp4" with IPX-177 gives "".
C15_SuffixAndIdentifier ==
    LET base == BaseOf(detect.filepath)
        postfix == postfix_of(base)
        avid == upper(detect.avid.s)
        keyword == IF PATTERN_search(base) THEN {"U"} ELSE {}
        letters == {detect.result[k] : k \in DOMAIN detect.result}
        IPX_177 == [none |-> FALSE, s |-> <<"I", "P", "X", "-", "1", "7", "7">>]
    IN /\ postfix \in {<<"U">>, <<"C">>, <<"U", "C">>} =>
            /\ detect.raised = "none"
            /\ detect.returned =>
                /\ letters = keyword \cup {postfix[k] : k \in DOMAIN postfix}
                /\ detect.result
                     = detect_special_attr(detect.filepath, [none |-> TRUE, s |-> <<>>]).result
       /\ (detect.returned /\ postfix \notin {<<"U">>, <<"C">>, <<"U", "C">>}) =>
            /\ avid = <<>> => letters = keyword
            /\ letters \ keyword # {} =>
                  \E e \in DOMAIN base : \E w \in {<<"U", "C">>, <<"U">>, <<"C">>} :
                      /\ LettersAt(base, e, w)
                      /\ EndsWith(Strip(SubSeq(base, 1, e - 1)), Strip(avid))
                      /\ letters \subseteq keyword \cup {w[k] : k \in DOMAIN w}
            /\ (/\ avid # <<>>
                /\ \E e \in DOMAIN base : \E w \in {<<"U", "C">>, <<"U">>, <<"C">>} :
                      /\ LettersAt(base, e, w)
                      /\ \E k \in 1..e : Collapse(SubSeq(base, k, e - 1)) = Collapse(avid))
                  => letters # {}
       /\ detect.returned =>
            /\ (detect.filepath = TITLE_001 \o <<"-", "U", "C", ".", "e", "x", "t">>
                    /\ detect.avid = [none |-> FALSE, s |-> TITLE_001])
                  => detect.result = <<"U", "C">>
            /\ (detect.filepath = TITLE_001 \o <<".", "e", "x", "t">>
                    /\ detect.avid = [none |-> FALSE, s |-> TITLE_001])
                  => detect.result = <<>>
            /\ (detect.filepath = ipx_177 \o <<"c", "d", "1", ".", "m", "p", "4">>
                    /\ detect.avid = IPX_177)
                  => detect.result = <<>>

\* the identifier, written with an underscore, is followed by C at the end of
\* the base name, which has no suffix of its own
C15_Witness ==
    /\ detect.returned /\ detect.result = <<"C">>
    /\ detect.filepath = ipx_177 \o <<"C", ".", "m", "p", "4">>
    /\ detect.avid = [none |-> FALSE, s |-> <<"i", "p", "x", "_", "1", "7", "7">>]

\* C16: detect_special_attr never raises, whatever the identifier holds
\* (nothing, the empty string, characters special to regular expressions); a
\* missing identifier only skips the identifier step.
C16_DetectNeverRaises ==
    /\ detect.raised = "none"
    /\ (detect.returned /\ detect.avid.none) =>
          detect.result = detect_special_attr(detect.filepath, [none |-> FALSE, s |-> <<>>]).result

\* the extension truncate_filename sets apart
ExtOf(t) == IF t.preserve_ext THEN splitext(t.filename).ext ELSE <<>>
BaseNameOf(t) == IF t.preserve_ext THEN splitext(t.filename).root ELSE t.filename

\* C17: in the unit chosen the result is never longer than max_length, unless
\* the extension is kept and is alone longer than max_length.
C17_LengthBound ==
    trunc.calls >= 1 =>
        \/ get_length(trunc.result, trunc.by_byte) <= trunc.max_length
        \/ trunc.preserve_ext /\ get_length(ExtOf(trunc), trunc.by_byte) > trunc.max_length

\* a name cut by bytes with its extension kept and a character of three bytes
\* left out whole
C17_Witness ==
    /\ trunc.calls >= 1 /\ trunc.by_byte /\ trunc.preserve_ext
    /\ ExtOf(trunc) # <<>> /\ Len(trunc.result) > Len(ExtOf(trunc))
    /\ trunc.result # trunc.filename
    /\ get_length(trunc.result, TRUE) < trunc.max_length

\* C18: a name that is not longer than max_length is returned as it is, and
\* truncating the result again with the same parameters gives the result.
C18_Idempotent ==
    /\ (trunc.calls >= 1 /\ get_length(trunc.filename, trunc.by_byte) <= trunc.max_length) =>
          trunc.result = trunc.filename
    /\ trunc.calls = 2 => trunc.again = trunc.result

\* a name that was cut, truncated again
C18_Witness ==
    /\ trunc.calls = 2 /\ trunc.again = trunc.result
    /\ trunc.result # trunc.filename /\ trunc.result # <<>>

\* the longest prefix of s, of whole characters, not longer than budget
LongestPrefix(s, budget, by_byte) ==
    LET fitting == {n \in 0..Len(s) : get_length(SubSeq(s, 1, n), by_byte) <= budget}
    IN SubSeq(s, 1, CHOOSE n \in fitting : \A m \in fitting : m <= n)

\* C20: when the name is too long and the extension leaves room for the base
\* name, the result is the longest prefix of the base name, of whole
\* characters, that fits max_length less the extension, followed by the whole
\* extension; and gathering the parts between punctuation gives just what the
\* simple truncation gives.
C20_LongestPrefixPlusExt ==
    LET ext == ExtOf(trunc)
        base_name == BaseNameOf(trunc)
        budget == trunc.max_length - get_length(ext, trunc.by_byte)
    IN (/\ trunc.calls >= 1
        /\ get_length(trunc.filename, trunc.by_byte) > trunc.max_length
        /\ budget > 0) =>
            /\ trunc.result = LongestPrefix(base_name, budget, trunc.by_byte) \o ext
            /\ accumulate(split_parts(base_name, <<>>), <<>>, budget, trunc.by_byte)
                  = flat_truncate(base_name, budget, trunc.by_byte)

\* cut by bytes inside a part, after a part that fitted whole, before a
\* character of three bytes that did not fit
C20_Witness ==
    /\ trunc.calls >= 1 /\ trunc.by_byte /\ trunc.preserve_ext
    /\ trunc.filename = <<"-", "U+4E2D", ".", "a">>
    /\ trunc.max_length = 5
    /\ trunc.result = <<"-", ".", "a">>

\* C21: in get_with_retry a 404 response is not retried: the first GET request answered by
\* status 404 is the last one sent, and the call ends there by raising MovieNotFoundError to
\* the caller, whatever max_attempts is.
C21_NotFoundNotRetried ==
    \A k \in DOMAIN fetch.sent :
        fetch.sent[k].status_code = 404 =>
            /\ k = Len(fetch.sent)
            /\ fetch.pc = "done"
            /\ fetch.outcome = "raised"
            /\ fetch.value = "MovieNotFoundError"

\* C22: get_with_retry sends at most max_attempts GET requests to the target URL, and when it
\* ends it has either returned a response whose status code is 200 or raised an exception; it
\* never returns None, for any max_attempts >= 0 and any sequence of replies.
C22_ResponseOrException ==
    /\ Len(fetch.sent) <= fetch.max_attempts
    /\ fetch.pc = "done" =>
          \/ fetch.outcome = "raised"
          \/ /\ fetch.outcome = "returned"
             /\ fetch.value = "Response"
             /\ fetch.status_code = 200

====
